---- MODULE Spec2Model ----
(***************************************************************************)
(* Loan Approval Predictor (src/app.py): a Streamlit script.  The process  *)
(* serves browser sessions; every widget event of a session re-runs the    *)
(* whole script top to bottom.  load_model() is wrapped by                 *)
(* st.cache_resource, a process-wide cache shared by all sessions.         *)
(***************************************************************************)
EXTENDS Integers, Sequences, FiniteSets, TLC

\* ------------------------------------------------------------------ bounds
NumSessions == 2    \* browser sessions served by the process
MaxEdits == 1       \* form-field edits over the life of the process
MaxReads == 2       \* executions of joblib.load that end in an uncaught error
MaxFailed == 2      \* failed prediction attempts that are counted
ProbHalf == 2       \* probabilities are k / (2 * ProbHalf)

AllSessions == 1..NumSessions

Range(seq) == {seq[i] : i \in DOMAIN seq}

\* ------------------------------------------------------- the form widgets
GenderOptions == <<"Male", "Female">>
EducationOptions == <<"Graduate", "Not Graduate">>
MarriedOptions == <<"Yes", "No">>
SelfEmployedOptions == <<"Yes", "No">>
DependentsOptions == <<"0", "1", "2", "3+">>
PropertyAreaOptions == <<"Urban", "Semiurban", "Rural">>
LoanAmountTermOptions == <<360, 180, 480, 300, 240, 120, 84>>
\* [1.0, 0.0]
CreditHistoryOptions == <<1, 0>>

\* st.number_input(min_value=0, step=..., value=...)
MinValue == 0
ApplicantIncomeValue == 5000
ApplicantIncomeStep == 500
CoapplicantIncomeValue == 0
CoapplicantIncomeStep == 500
LoanAmountValue == 100
LoanAmountStep == 10

\* What a number_input can hand to the script: an integer >= min_value.
\* The model draws the floor, the default and one step above the default.
NumberChoices(min, value, step) == {n \in {min, value, value + step} : n >= min}

\* The value a widget holds on the first run: the first option of a
\* selectbox, the value= of a number_input.
DefaultForm ==
    [gender |-> GenderOptions[1],
     education |-> EducationOptions[1],
     married |-> MarriedOptions[1],
     self_employed |-> SelfEmployedOptions[1],
     dependents |-> DependentsOptions[1],
     property_area |-> PropertyAreaOptions[1],
     applicant_income |-> ApplicantIncomeValue,
     coapplicant_income |-> CoapplicantIncomeValue,
     loan_amount |-> LoanAmountValue,
     loan_amount_term |-> LoanAmountTermOptions[1],
     credit_history |-> CreditHistoryOptions[1]]

FormFields == DOMAIN DefaultForm

\* The values each widget can return.
WidgetValues ==
    [gender |-> Range(GenderOptions),
     education |-> Range(EducationOptions),
     married |-> Range(MarriedOptions),
     self_employed |-> Range(SelfEmployedOptions),
     dependents |-> Range(DependentsOptions),
     property_area |-> Range(PropertyAreaOptions),
     applicant_income |-> NumberChoices(MinValue, ApplicantIncomeValue, ApplicantIncomeStep),
     coapplicant_income |-> NumberChoices(MinValue, CoapplicantIncomeValue, CoapplicantIncomeStep),
     loan_amount |-> NumberChoices(MinValue, LoanAmountValue, LoanAmountStep),
     loan_amount_term |-> Range(LoanAmountTermOptions),
     credit_history |-> Range(CreditHistoryOptions)]

\* Raw inputs as a caller that bypasses the widgets can supply them: the
\* widget's values and one value outside the field's domain.
RawValues ==
    [gender |-> Range(GenderOptions) \cup {"Other"},
     education |-> Range(EducationOptions) \cup {"Other"},
     married |-> Range(MarriedOptions) \cup {"Other"},
     self_employed |-> Range(SelfEmployedOptions) \cup {"Other"},
     dependents |-> Range(DependentsOptions) \cup {"Other"},
     property_area |-> Range(PropertyAreaOptions) \cup {"Other"},
     applicant_income |-> WidgetValues.applicant_income \cup {-1},
     coapplicant_income |-> WidgetValues.coapplicant_income \cup {-1},
     loan_amount |-> WidgetValues.loan_amount \cup {-1},
     loan_amount_term |-> Range(LoanAmountTermOptions) \cup {-1},
     credit_history |-> Range(CreditHistoryOptions) \cup {-1}]

\* The default form with at most one field replaced by a raw value.
RawForms ==
    UNION {{[DefaultForm EXCEPT ![f] = v] : v \in RawValues[f]} : f \in FormFields}

\* Mutant: the applicant's income column is filled from the co-applicant's.
input_df_swapped(f) ==
    [Gender |-> f.gender,
     Married |-> f.married,
     Dependents |-> f.dependents,
     Education |-> f.education,
     Self_Employed |-> f.self_employed,
     ApplicantIncome |-> f.coapplicant_income,
     CoapplicantIncome |-> f.coapplicant_income,
     LoanAmount |-> f.loan_amount,
     Loan_Amount_Term |-> f.loan_amount_term,
     Credit_History |-> f.credit_history,
     Property_Area |-> f.property_area]

\* pd.DataFrame([{...}]): the single row handed to the pipeline.
input_df(f) ==
    [Gender |-> f.gender,
     Married |-> f.married,
     Dependents |-> f.dependents,
     Education |-> f.education,
     Self_Employed |-> f.self_employed,
     ApplicantIncome |-> f.applicant_income,
     CoapplicantIncome |-> f.coapplicant_income,
     LoanAmount |-> f.loan_amount,
     Loan_Amount_Term |-> f.loan_amount_term,
     Credit_History |-> f.credit_history,
     Property_Area |-> f.property_area]

\* ----------------------------------------------------------- probabilities
\* A probability is the rational <<numerator, denominator>>.
ProbDen == 2 * ProbHalf
ProbValues == {<<k, ProbDen>> : k \in 0..ProbDen}
NoProb == <<0, 0>>
NoValue == <<0, 1>>

\* 0.5
Threshold == <<1, 2>>

\* the probability a fixture pipeline returns: exactly the threshold
FixtureProb == <<ProbHalf, ProbDen>>

Ge(a, b) == a[1] * b[2] >= b[1] * a[2]
Lt(a, b) == a[1] * b[2] < b[1] * a[2]

\* Mutant: the comparison is strict.
decision_of_strict(p) == IF Lt(Threshold, p) THEN "Approved" ELSE "Not Approved"

\* decision = "Approved" if prob >= 0.5 else "Not Approved"
decision_of(p) == IF Ge(p, Threshold) THEN "Approved" ELSE "Not Approved"

\* Mutant: the extra guard uses another cut-off than the decision.
recommendations_shown_low(d, p) == d = "Not Approved" /\ Lt(p, <<1, 4>>)

\* if decision == "Not Approved" and prob < 0.5
recommendations_shown(d, p) == d = "Not Approved" /\ Lt(p, Threshold)

\* prob * 100, the value of the gauge
GaugeValue(p) == <<p[1] * 100, p[2]>>

\* f"{prob:.1%}": the percentage rounded to one decimal, in tenths of a percent
PercentTenths(p) == <<(2000 * p[1] + p[2]) \div (2 * p[2]), 10>>

\* ------------------------------------------------------ rendered elements
Element(kind, text, value) == [kind |-> kind, text |-> text, value |-> value]

\* st.error("Modele non trouve. ...") inside load_model
NotFoundMessage ==
    Element("error", <<"Modele non trouve. Veuillez verifier que 'loan_pipeline.joblib' existe.">>, NoValue)

\* st.error(f"Erreur lors de la prediction : {str(e)}")
PredictionErrorMessage(e) ==
    Element("error", <<"Erreur lors de la prediction : ", e>>, NoValue)

\* An exception no handler of the script catches: Streamlit shows it and
\* ends the script run.
UncaughtException(e) == Element("exception", <<e>>, NoValue)

Sidebar == Element("sidebar", <<"Loan Predictor">>, NoValue)
FormElement == Element("form", <<>>, NoValue)
PredictButton == Element("button", <<"Calculer la probabilite d'approbation">>, NoValue)
Footer == Element("footer", <<"Loan Approval Predictor (c) 2025">>, NoValue)
PageElement(p) == Element(p, <<>>, NoValue)

\* The elements the try block renders after scoring, in source order.
RenderedResult(p, d) ==
    << Element("card_open", <<>>, NoValue),
       Element("gauge", <<"Probabilite d'approbation (%)">>, GaugeValue(p)),
       IF d = "Approved"
          THEN Element("heading", <<"Pret Approuve">>, NoValue)
          ELSE Element("heading", <<"Pret Non Approuve">>, NoValue),
       Element("metric", <<"Probabilite d'approbation">>, PercentTenths(p)),
       Element("metric", <<"Seuil de decision", "50%">>, NoValue),
       Element("card_close", <<>>, NoValue) >>
    \o (IF recommendations_shown(d, p)
           THEN << Element("recommendations",
                           <<"Ameliorer l'historique de credit",
                             "Augmenter le revenu du demandeur/co-demandeur",
                             "Reduire le montant du pret demande">>, NoValue) >>
           ELSE << >>)

\* The rendering calls of the try block that can raise, by position.
RenderSteps(p) == 1..Len(RenderedResult(p, decision_of(p)))

\* ------------------------------------------------------------- environment
Pages == <<"Prediction", "Documentation", "About">>
ArtifactStates == {"present", "missing", "unreadable"}
\* str(e) of what predict_proba(...)[0][1] can raise
PipelineErrors == {"ValueError: columns are missing", "IndexError: index 1 is out of bounds"}
\* str(e) of what a rendering call in the try block can raise
RenderErrors == {"StreamlitAPIException: render failed"}
\* what joblib.load can raise besides FileNotFoundError
LoadErrors == {"UnpicklingError: invalid load key"}

VARIABLES
    artifact,     \* the file loan_pipeline.joblib on disk
    cache,        \* the st.cache_resource entry of load_model: "empty", "pipeline", "none"
    lock,         \* holder of the cache's compute lock, 0 when free
    reads,        \* executions of joblib.load so far
    failed,       \* failed prediction attempts so far (saturates at MaxFailed)
    edits,        \* form-field edits so far
    pc,           \* per session: position of its script run
    page,         \* per session: the sidebar radio
    form,         \* per session: the values of the eleven form widgets
    predict_btn,  \* per session: the button's value in the current run
    model,        \* per session: the script's variable model
    out,          \* per session: the elements the current run has rendered
    submitted,    \* per session: the rows handed to predict_proba in the current run
    prob,         \* per session: the script's variable prob
    decision      \* per session: the script's variable decision

vars == <<artifact, cache, lock, reads, failed, edits, pc, page, form,
          predict_btn, model, out, submitted, prob, decision>>

shared == <<artifact, cache, lock, reads>>

Bump(n) == IF n < MaxFailed THEN n + 1 ELSE n

Init ==
    /\ artifact \in ArtifactStates
    /\ cache = "empty"
    /\ lock = 0
    /\ reads = 0
    /\ failed = 0
    /\ edits = 0
    /\ pc = [s \in AllSessions |-> "closed"]
    /\ page = [s \in AllSessions |-> Pages[1]]
    /\ form = [s \in AllSessions |-> DefaultForm]
    /\ predict_btn = [s \in AllSessions |-> FALSE]
    /\ model = [s \in AllSessions |-> "unset"]
    /\ out = [s \in AllSessions |-> << >>]
    /\ submitted = [s \in AllSessions |-> << >>]
    /\ prob = [s \in AllSessions |-> NoProb]
    /\ decision = [s \in AllSessions |-> "none"]

\* ------------------------------------------------------ start of a script run
\* A run starts with nothing rendered and the script's variables unbound.
StartRun(s, btn) ==
    /\ pc' = [pc EXCEPT ![s] = "load"]
    /\ predict_btn' = [predict_btn EXCEPT ![s] = btn]
    /\ model' = [model EXCEPT ![s] = "unset"]
    /\ out' = [out EXCEPT ![s] = << >>]
    /\ submitted' = [submitted EXCEPT ![s] = << >>]
    /\ prob' = [prob EXCEPT ![s] = NoProb]
    /\ decision' = [decision EXCEPT ![s] = "none"]

\* A browser opens the page: first run, every widget at its default.
Connect(s) ==
    /\ pc[s] = "closed"
    /\ StartRun(s, FALSE)
    /\ UNCHANGED <<shared, failed, edits, page, form>>

\* st.radio("Navigation", ...)
SelectPage(s, p) ==
    /\ pc[s] = "idle"
    /\ p # page[s]
    /\ page' = [page EXCEPT ![s] = p]
    /\ StartRun(s, FALSE)
    /\ UNCHANGED <<shared, failed, edits, form>>

\* One of the eleven form widgets changes; they exist on the prediction page.
EditField(s, f, v) ==
    /\ pc[s] = "idle"
    /\ page[s] = "Prediction"
    /\ edits < MaxEdits
    /\ v # form[s][f]
    /\ form' = [form EXCEPT ![s] = [@ EXCEPT ![f] = v]]
    /\ edits' = edits + 1
    /\ StartRun(s, FALSE)
    /\ UNCHANGED <<shared, failed, page>>

\* st.button(...): True in the run its click triggers, False in every other.
ClickPredict(s) ==
    /\ pc[s] = "idle"
    /\ page[s] = "Prediction"
    /\ StartRun(s, TRUE)
    /\ UNCHANGED <<shared, failed, edits, page, form>>

\* The file is created, removed or replaced while the process runs.
ArtifactChanges(a) ==
    /\ a # artifact
    /\ artifact' = a
    /\ UNCHANGED <<cache, lock, reads, failed, edits, pc, page, form,
                   predict_btn, model, out, submitted, prob, decision>>

\* ------------------------------------------------- model = load_model()
\* What a cache hit hands back: the cached value, and the st.error the
\* cached call rendered is rendered again.
Replay(s, value) ==
    /\ model' = [model EXCEPT ![s] = value]
    /\ out' = [out EXCEPT ![s] =
                 IF value = "none" THEN Append(@, NotFoundMessage) ELSE @]

\* Mutant: a hit hands back the value without the message.
CacheHit_silent(s) ==
    /\ pc[s] = "load"
    /\ cache # "empty"
    /\ model' = [model EXCEPT ![s] = cache]
    /\ pc' = [pc EXCEPT ![s] = "body"]
    /\ UNCHANGED <<shared, failed, edits, page, form, predict_btn, out,
                   submitted, prob, decision>>

\* First lookup, without the lock: hit.
CacheHit(s) ==
    /\ pc[s] = "load"
    /\ cache # "empty"
    /\ Replay(s, cache)
    /\ pc' = [pc EXCEPT ![s] = "body"]
    /\ UNCHANGED <<shared, failed, edits, page, form, predict_btn,
                   submitted, prob, decision>>

\* First lookup: miss; the run goes for the compute lock.
CacheMiss(s) ==
    /\ pc[s] = "load"
    /\ cache = "empty"
    /\ pc' = [pc EXCEPT ![s] = "wait_lock"]
    /\ UNCHANGED <<shared, failed, edits, page, form, predict_btn, model,
                   out, submitted, prob, decision>>

\* Lock taken, second lookup: another run has filled the cache meanwhile.
LockedHit(s) ==
    /\ pc[s] = "wait_lock"
    /\ lock = 0
    /\ cache # "empty"
    /\ Replay(s, cache)
    /\ pc' = [pc EXCEPT ![s] = "body"]
    /\ UNCHANGED <<shared, failed, edits, page, form, predict_btn,
                   submitted, prob, decision>>

\* Mutant: no lock and no second lookup before load_model's body runs.
LockedMiss_unguarded(s) ==
    /\ pc[s] = "wait_lock"
    /\ lock' = s
    /\ pc' = [pc EXCEPT ![s] = "compute"]
    /\ UNCHANGED <<artifact, cache, reads, failed, edits, page, form,
                   predict_btn, model, out, submitted, prob, decision>>

\* Lock taken, second lookup: still a miss; load_model's body will run.
LockedMiss(s) ==
    /\ pc[s] = "wait_lock"
    /\ lock = 0
    /\ cache = "empty"
    /\ lock' = s
    /\ pc' = [pc EXCEPT ![s] = "compute"]
    /\ UNCHANGED <<artifact, cache, reads, failed, edits, page, form,
                   predict_btn, model, out, submitted, prob, decision>>

\* return joblib.load("loan_pipeline.joblib"): the value is cached.
LoadReturns(s) ==
    /\ pc[s] = "compute"
    /\ artifact = "present"
    /\ reads' = reads + 1
    /\ cache' = "pipeline"
    /\ model' = [model EXCEPT ![s] = "pipeline"]
    /\ lock' = 0
    /\ pc' = [pc EXCEPT ![s] = "body"]
    /\ UNCHANGED <<artifact, failed, edits, page, form, predict_btn, out,
                   submitted, prob, decision>>

\* except FileNotFoundError: st.error(...); return None: None is cached.
LoadNotFound(s) ==
    /\ pc[s] = "compute"
    /\ artifact = "missing"
    /\ reads' = reads + 1
    /\ out' = [out EXCEPT ![s] = Append(@, NotFoundMessage)]
    /\ cache' = "none"
    /\ model' = [model EXCEPT ![s] = "none"]
    /\ lock' = 0
    /\ pc' = [pc EXCEPT ![s] = "body"]
    /\ UNCHANGED <<artifact, failed, edits, page, form, predict_btn,
                   submitted, prob, decision>>

\* joblib.load raises something else: no handler, nothing is cached, the
\* script run ends at line 63.
LoadRaises(s, e) ==
    /\ pc[s] = "compute"
    /\ artifact = "unreadable"
    /\ reads < MaxReads
    /\ reads' = reads + 1
    /\ out' = [out EXCEPT ![s] = Append(@, UncaughtException(e))]
    /\ lock' = 0
    /\ pc' = [pc EXCEPT ![s] = "idle"]
    /\ failed' = IF predict_btn[s] THEN Bump(failed) ELSE failed
    /\ UNCHANGED <<artifact, cache, edits, page, form, predict_btn, model,
                   submitted, prob, decision>>

\* ------------------------------------------- the rest of the script run
\* elif page == Documentation / About: the form widgets are not created in
\* this run, so their values fall back to the defaults.
ShowOtherPage(s) ==
    /\ pc[s] = "body"
    /\ page[s] # "Prediction"
    /\ out' = [out EXCEPT ![s] = @ \o <<Sidebar, PageElement(page[s]), Footer>>]
    /\ form' = [form EXCEPT ![s] = DefaultForm]
    /\ pc' = [pc EXCEPT ![s] = "idle"]
    /\ UNCHANGED <<shared, failed, edits, page, predict_btn, model,
                   submitted, prob, decision>>

\* if predict_btn and model is not None: false; only the form is shown.
ShowForm(s) ==
    /\ pc[s] = "body"
    /\ page[s] = "Prediction"
    /\ ~(predict_btn[s] /\ model[s] # "none")
    /\ out' = [out EXCEPT ![s] = @ \o <<Sidebar, FormElement, PredictButton, Footer>>]
    /\ failed' = IF predict_btn[s] THEN Bump(failed) ELSE failed
    /\ pc' = [pc EXCEPT ![s] = "idle"]
    /\ UNCHANGED <<shared, edits, page, form, predict_btn, model,
                   submitted, prob, decision>>

\* Mutant: the handler scores a second time before it reports.
PredictRaises_retry(s, e) ==
    /\ pc[s] = "body"
    /\ page[s] = "Prediction"
    /\ predict_btn[s] /\ model[s] # "none"
    /\ submitted' = [submitted EXCEPT ![s] = Append(Append(@, input_df(form[s])), input_df(form[s]))]
    /\ out' = [out EXCEPT ![s] =
                 @ \o <<Sidebar, FormElement, PredictButton,
                        PredictionErrorMessage(e), Footer>>]
    /\ failed' = Bump(failed)
    /\ pc' = [pc EXCEPT ![s] = "idle"]
    /\ UNCHANGED <<shared, edits, page, form, predict_btn, model, prob, decision>>

\* Mutant: the handler drops the cached pipeline.
PredictRaises_invalidate(s, e) ==
    /\ pc[s] = "body"
    /\ page[s] = "Prediction"
    /\ predict_btn[s] /\ model[s] # "none"
    /\ submitted' = [submitted EXCEPT ![s] = Append(@, input_df(form[s]))]
    /\ out' = [out EXCEPT ![s] =
                 @ \o <<Sidebar, FormElement, PredictButton,
                        PredictionErrorMessage(e), Footer>>]
    /\ failed' = Bump(failed)
    /\ pc' = [pc EXCEPT ![s] = "idle"]
    /\ cache' = "empty"
    /\ UNCHANGED <<artifact, lock, reads, edits, page, form, predict_btn, model,
                   prob, decision>>

\* Mutant: the gauge is drawn before the pipeline is called.
PredictRaises_partial(s, e) ==
    /\ pc[s] = "body"
    /\ page[s] = "Prediction"
    /\ predict_btn[s] /\ model[s] # "none"
    /\ submitted' = [submitted EXCEPT ![s] = Append(@, input_df(form[s]))]
    /\ out' = [out EXCEPT ![s] =
                 @ \o <<Sidebar, FormElement, PredictButton,
                        Element("gauge", <<"Probabilite d'approbation (%)">>, NoValue),
                        PredictionErrorMessage(e), Footer>>]
    /\ failed' = Bump(failed)
    /\ pc' = [pc EXCEPT ![s] = "idle"]
    /\ UNCHANGED <<shared, edits, page, form, predict_btn, model, prob, decision>>

\* model.predict_proba(input_df)[0][1] raises: except Exception as e.
PredictRaises(s, e) ==
    /\ pc[s] = "body"
    /\ page[s] = "Prediction"
    /\ predict_btn[s] /\ model[s] # "none"
    /\ submitted' = [submitted EXCEPT ![s] = Append(@, input_df(form[s]))]
    /\ out' = [out EXCEPT ![s] =
                 @ \o <<Sidebar, FormElement, PredictButton,
                        PredictionErrorMessage(e), Footer>>]
    /\ failed' = Bump(failed)
    /\ pc' = [pc EXCEPT ![s] = "idle"]
    /\ UNCHANGED <<shared, edits, page, form, predict_btn, model, prob, decision>>

\* predict_proba returns p and every rendering call succeeds.
PredictReturns(s, p) ==
    /\ pc[s] = "body"
    /\ page[s] = "Prediction"
    /\ predict_btn[s] /\ model[s] # "none"
    /\ submitted' = [submitted EXCEPT ![s] = Append(@, input_df(form[s]))]
    /\ prob' = [prob EXCEPT ![s] = p]
    /\ decision' = [decision EXCEPT ![s] = decision_of(p)]
    /\ out' = [out EXCEPT ![s] =
                 @ \o <<Sidebar, FormElement, PredictButton>>
                   \o RenderedResult(p, decision_of(p)) \o <<Footer>>]
    /\ pc' = [pc EXCEPT ![s] = "idle"]
    /\ UNCHANGED <<shared, failed, edits, page, form, predict_btn, model>>

\* predict_proba returns p and the k-th rendering call of the try block
\* raises: what was rendered before it stays, then except Exception as e.
RenderRaises(s, p, k, e) ==
    /\ pc[s] = "body"
    /\ page[s] = "Prediction"
    /\ predict_btn[s] /\ model[s] # "none"
    /\ k \in RenderSteps(p)
    /\ submitted' = [submitted EXCEPT ![s] = Append(@, input_df(form[s]))]
    /\ prob' = [prob EXCEPT ![s] = p]
    /\ decision' = [decision EXCEPT ![s] = decision_of(p)]
    /\ out' = [out EXCEPT ![s] =
                 @ \o <<Sidebar, FormElement, PredictButton>>
                   \o SubSeq(RenderedResult(p, decision_of(p)), 1, k - 1)
                   \o <<PredictionErrorMessage(e), Footer>>]
    /\ failed' = Bump(failed)
    /\ pc' = [pc EXCEPT ![s] = "idle"]
    /\ UNCHANGED <<shared, edits, page, form, predict_btn, model>>

\* ------------------------------------------------------- specifications
\* One session, every input of the form and every outcome of the attempt.
Next ==
    \/ Connect(1)
    \/ \E p \in Range(Pages) : SelectPage(1, p)
    \/ \E f \in FormFields : \E v \in WidgetValues[f] : EditField(1, f, v)
    \/ ClickPredict(1)
    \/ \E a \in ArtifactStates : ArtifactChanges(a)
    \/ CacheHit(1)
    \/ CacheMiss(1)
    \/ LockedMiss(1)
    \/ LoadReturns(1)
    \/ LoadNotFound(1)
    \/ \E e \in LoadErrors : LoadRaises(1, e)
    \/ ShowOtherPage(1)
    \/ ShowForm(1)
    \/ \E e \in PipelineErrors : PredictRaises(1, e)
    \/ \E p \in ProbValues : PredictReturns(1, p)
    \/ \E p \in ProbValues : \E k \in RenderSteps(p) : \E e \in RenderErrors :
          RenderRaises(1, p, k, e)

Spec == Init /\ [][Next]_vars

\* Every session, interleaved at each step of load_model's cache; the form
\* stays at its defaults and the pipeline is a fixture that returns
\* FixtureProb or raises.
NextSessions ==
    \/ \E a \in ArtifactStates : ArtifactChanges(a)
    \/ \E s \in AllSessions :
          \/ Connect(s)
          \/ \E p \in Range(Pages) : SelectPage(s, p)
          \/ ClickPredict(s)
          \/ CacheHit(s)
          \/ CacheMiss(s)
          \/ LockedHit(s)
          \/ LockedMiss(s)
          \/ LoadReturns(s)
          \/ LoadNotFound(s)
          \/ \E e \in LoadErrors : LoadRaises(s, e)
          \/ ShowOtherPage(s)
          \/ ShowForm(s)
          \/ \E e \in PipelineErrors : PredictRaises(s, e)
          \/ PredictReturns(s, FixtureProb)

SpecSessions == Init /\ [][NextSessions]_vars

\* The construction of the row and its scoring, applied to raw inputs: the
\* run of session 1 stands right after load_model, the button pressed.
InitRecord ==
    /\ artifact = "present"
    /\ cache = "pipeline"
    /\ lock = 0
    /\ reads = 1
    /\ failed = 0
    /\ edits = 0
    /\ pc = [s \in AllSessions |-> IF s = 1 THEN "body" ELSE "closed"]
    /\ page = [s \in AllSessions |-> Pages[1]]
    /\ \E raw \in RawForms : form = [s \in AllSessions |-> IF s = 1 THEN raw ELSE DefaultForm]
    /\ predict_btn = [s \in AllSessions |-> s = 1]
    /\ model = [s \in AllSessions |-> IF s = 1 THEN "pipeline" ELSE "unset"]
    /\ out = [s \in AllSessions |-> << >>]
    /\ submitted = [s \in AllSessions |-> << >>]
    /\ prob = [s \in AllSessions |-> NoProb]
    /\ decision = [s \in AllSessions |-> "none"]

NextRecord ==
    \/ \E e \in PipelineErrors : PredictRaises(1, e)
    \/ \E p \in ProbValues : PredictReturns(1, p)
    \/ \E p \in ProbValues : \E k \in RenderSteps(p) : \E e \in RenderErrors :
          RenderRaises(1, p, k, e)

SpecRecord == InitRecord /\ [][NextRecord]_vars

\* ------------------------------------------------------------ properties
HasKind(seq, k) == \E i \in DOMAIN seq : seq[i].kind = k
HasElement(seq, el) == \E i \in DOMAIN seq : seq[i] = el
ContainsText(el, t) == \E i \in DOMAIN el.text : el.text[i] = t

\* The parts of a PredictionResult on the page.
ResultKinds == {"gauge", "heading", "metric", "recommendations"}
IsResultPart(el) == el.kind \in ResultKinds
ResultParts(seq) == SelectSeq(seq, IsResultPart)

\* The attempt's error: the st.error of the except clause.
HasPredictionError(seq) ==
    \E i \in DOMAIN seq : \E e \in PipelineErrors \cup RenderErrors :
        seq[i] = PredictionErrorMessage(e)

\* A run that scored and rendered without raising.
Succeeded(s) ==
    /\ pc[s] = "idle"
    /\ prob[s] # NoProb
    /\ ~HasKind(out[s], "error")

\* A finished button press that gave no result.
FailedAttempt(s) ==
    /\ pc[s] = "idle"
    /\ predict_btn[s]
    /\ \/ model[s] # "pipeline"
       \/ HasKind(out[s], "error")
       \/ HasKind(out[s], "exception")

\* C1: the decision is Approved exactly when the probability is at least
\* one half (so 0.5 itself is Approved), Not Approved otherwise, and the
\* decision is monotonic in the probability.
C1_ThresholdDecision ==
    /\ \A s \in AllSessions : decision[s] # "none" =>
          /\ decision[s] \in {"Approved", "Not Approved"}
          /\ decision[s] = "Approved" <=> 2 * prob[s][1] >= prob[s][2]
    /\ \A p1 \in ProbValues : \A p2 \in ProbValues :
          (p1[1] <= p2[1] /\ decision_of(p1) = "Approved") => decision_of(p2) = "Approved"

\* C1 witness: a run scored exactly 0.5 and decided Approved.
C1_Witness ==
    \E s \in AllSessions :
        /\ 2 * prob[s][1] = prob[s][2]
        /\ prob[s] # NoProb
        /\ decision[s] = "Approved"

\* C2: after a successful prediction the recommendations are on the page
\* if and only if the decision is Not Approved.
C2_RecommendationsIffRejected ==
    \A s \in AllSessions : Succeeded(s) =>
        (HasKind(out[s], "recommendations") <=> decision[s] = "Not Approved")

\* C2 witness: a successful prediction just below the threshold shows them.
C2_Witness ==
    \E s \in AllSessions :
        /\ Succeeded(s)
        /\ decision[s] = "Not Approved"
        /\ prob[s][1] = ProbHalf - 1
        /\ HasKind(out[s], "recommendations")

\* C9: a script run calls predict_proba at most once, and not at all when
\* the button was not pressed or another page is selected.
C9_AtMostOneScoring ==
    \A s \in AllSessions :
        /\ Len(submitted[s]) <= 1
        /\ (~predict_btn[s] \/ page[s] # "Prediction") => Len(submitted[s]) = 0

\* C9 witness: an attempt whose scoring raised has called predict_proba once.
C9_Witness ==
    \E s \in AllSessions :
        /\ pc[s] = "idle"
        /\ Len(submitted[s]) = 1
        /\ prob[s] = NoProb
        /\ HasPredictionError(out[s])

Columns ==
    {"Gender", "Married", "Dependents", "Education", "Self_Employed",
     "ApplicantIncome", "CoapplicantIncome", "LoanAmount", "Loan_Amount_Term",
     "Credit_History", "Property_Area"}

ColumnOf ==
    [gender |-> "Gender", married |-> "Married", dependents |-> "Dependents",
     education |-> "Education", self_employed |-> "Self_Employed",
     applicant_income |-> "ApplicantIncome",
     coapplicant_income |-> "CoapplicantIncome", loan_amount |-> "LoanAmount",
     loan_amount_term |-> "Loan_Amount_Term", credit_history |-> "Credit_History",
     property_area |-> "Property_Area"]

\* C10: every row handed to predict_proba has exactly the eleven columns,
\* each holding the value of its form widget in the same run, a value the
\* widget can return.
C10_FullRecord ==
    \A s \in AllSessions : \A i \in DOMAIN submitted[s] :
        /\ DOMAIN submitted[s][i] = Columns
        /\ \A f \in FormFields :
              /\ submitted[s][i][ColumnOf[f]] = form[s][f]
              /\ submitted[s][i][ColumnOf[f]] \in WidgetValues[f]

\* C10 witness: a row was scored after the user changed a field.
C10_Witness ==
    \E s \in AllSessions :
        /\ Len(submitted[s]) = 1
        /\ form[s] # DefaultForm

\* C8: the step that ends a failed attempt leaves the cached handle as it
\* was and the session ready for its next event, and whatever the number
\* of failures before it, a run that scores and renders without raising
\* shows the whole result.
C8_UsableAfterFailure ==
    /\ [](\A s \in AllSessions : (Succeeded(s) /\ model[s] = "pipeline") =>
             /\ predict_btn[s]
             /\ ResultParts(out[s]) = ResultParts(RenderedResult(prob[s], decision[s]))
             /\ HasKind(out[s], "gauge") /\ HasKind(out[s], "heading"))
    /\ [][\A s \in AllSessions : (~FailedAttempt(s) /\ FailedAttempt(s)') =>
             /\ cache' = cache
             /\ pc'[s] = "idle"]_vars

\* C8 witness: a full result on the page after MaxFailed failed attempts.
C8_Witness ==
    \E s \in AllSessions :
        /\ Succeeded(s)
        /\ failed = MaxFailed
        /\ HasKind(out[s], "gauge")

\* C7: the message shown when the pipeline raises does not contain the
\* text of the exception.
C7_NoExceptionText ==
    \A s \in AllSessions : \A i \in DOMAIN out[s] : \A e \in PipelineErrors :
        out[s][i].kind = "error" => ~ContainsText(out[s][i], e)

\* C6: an attempt that reports an error has produced no part of a result.
C6_AtomicFailure ==
    \A s \in AllSessions :
        (pc[s] = "idle" /\ HasPredictionError(out[s])) => ResultParts(out[s]) = << >>

\* C6 as amended: when scoring raises, no part of a result is on the page;
\* when a rendering call raises after scoring, the parts on the page are
\* exactly those rendered before that call.
C6_AtomicScoringFailure ==
    \A s \in AllSessions :
        (pc[s] = "idle" /\ HasPredictionError(out[s])) =>
            IF prob[s] = NoProb
               THEN ResultParts(out[s]) = << >>
               ELSE \E k \in RenderSteps(prob[s]) :
                       ResultParts(out[s]) =
                          ResultParts(SubSeq(RenderedResult(prob[s], decision[s]), 1, k - 1))

\* C6 witness: scoring raised; the page holds the error and no result part.
C6_Witness ==
    \E s \in AllSessions :
        /\ pc[s] = "idle"
        /\ Len(submitted[s]) = 1
        /\ prob[s] = NoProb
        /\ HasPredictionError(out[s])
        /\ ResultParts(out[s]) = << >>

\* C3: joblib.load is executed at most once in the life of the process.
C3_LoadAtMostOnce == reads <= 1

\* C3 as amended: once a call of load_model has returned (a pipeline, or
\* None after FileNotFoundError) the file is never read again, the cached
\* value is never replaced, and every run gets that value; load_model's
\* body runs in one session at a time, and only while nothing is cached.
C3_LoadOnceReturned ==
    /\ [](\A s \in AllSessions :
             /\ pc[s] = "body" => (cache # "empty" /\ model[s] = cache)
             /\ pc[s] = "compute" => (cache = "empty" /\ lock = s))
    /\ [][cache # "empty" => (cache' = cache /\ reads' = reads)]_vars

\* C3 witness: two sessions have finished runs that hold the pipeline,
\* and the file was read once.
C3_Witness ==
    \E s \in AllSessions : \E t \in AllSessions :
        /\ s # t
        /\ model[s] = "pipeline" /\ model[t] = "pipeline"
        /\ pc[s] = "idle" /\ pc[t] = "idle"
        /\ cache = "pipeline"
        /\ reads = 1

\* C4: once the first load found no file, None stays cached, the file is
\* not read again, the run goes on, and every run (so every prediction
\* attempt) shows the not-found message and calls predict_proba never.
C4_MissingArtifactCached ==
    /\ [](\A s \in AllSessions :
             /\ (cache = "none" /\ pc[s] = "body") => model[s] = "none"
             /\ model[s] = "none" =>
                   /\ cache = "none"
                   /\ HasElement(out[s], NotFoundMessage)
                   /\ submitted[s] = << >>
                   /\ ResultParts(out[s]) = << >>
                   /\ ~HasKind(out[s], "exception"))
    /\ [][cache = "none" => (cache' = "none" /\ reads' = reads)]_vars
    /\ [][\A s \in AllSessions :
             (pc[s] = "compute" /\ cache' = "none") => pc'[s] = "body"]_vars

\* C4 witness: a button press finished with None cached and no scoring,
\* although the file exists by now.
C4_Witness ==
    \E s \in AllSessions :
        /\ pc[s] = "idle"
        /\ predict_btn[s]
        /\ model[s] = "none"
        /\ artifact = "present"
        /\ HasElement(out[s], NotFoundMessage)

\* A row within the data model: numbers non-negative, categories in
\* their enumerated sets.
ValidForm(f) ==
    /\ f.gender \in Range(GenderOptions)
    /\ f.education \in Range(EducationOptions)
    /\ f.married \in Range(MarriedOptions)
    /\ f.self_employed \in Range(SelfEmployedOptions)
    /\ f.dependents \in Range(DependentsOptions)
    /\ f.property_area \in Range(PropertyAreaOptions)
    /\ f.applicant_income >= 0
    /\ f.coapplicant_income >= 0
    /\ f.loan_amount >= 0
    /\ f.loan_amount_term \in Range(LoanAmountTermOptions)
    /\ f.credit_history \in Range(CreditHistoryOptions)

====
